---- MODULE Spec2Model ----
(***************************************************************************)
(* A model of sync_pool/src/pool.rs: the bucketed object pool SyncPool<T>, *)
(* its Slot buckets, the VisitorGuard entry/exit protocol and the          *)
(* PoolManager operations.  Every shared-memory access of the source       *)
(* (atomic load/store/CAS, or a block of plain accesses made under a       *)
(* bucket lock) is one step of the operation that performs it; the steps   *)
(* of one operation are the CASE arms of that operation's action.          *)
(***************************************************************************)
EXTENDS Integers, Sequences, FiniteSets, TLC

----------------------------------------------------------------------------
\* Sizes.  The three capacity constants of pool.rs are scaled down; the code
\* uses them only symbolically.
POOL_SIZE == 2
\* pool.rs:5 (8 in the source)

SLOT_CAP == 2
\* pool.rs:6 (32 in the source)

EXPANSION_CAP == 2
\* pool.rs:7 (512 in the source)

CONFIG_ALLOW_EXPANSION == 1

GET_SPIN == 4

PUT_SPIN == 6

DRAIN_RETRY == 8

\* Model bounds.
NThreads == 2

MaxCalls == 3

MaxUserCalls == 2

MaxSeqCalls == 4

MaxAdditional == 2

MaxSizeArg == 5

NHooks == 1

\* width of usize in the model: the visitor counter wraps modulo UsizeMod
UsizeMod == 6

Threads == 1..NThreads

Hooks == 1..NHooks

----------------------------------------------------------------------------
\* Option<T>: None is the empty sequence, Some(v) a one-element sequence.
None == <<>>

Some(v) == <<v>>

\* the null reset-handle pointer (ptr::null_mut())
NullPtr == 0

\* <T as Default>::default(): a new object; n is its identity
DefaultT(n) == [id |-> n, marker |-> 0]

\* <Option<T> as Default>::default(), the value of `Default::default()` in
\* `slice[i] = Default::default()` where slice[i] : Option<T>
OptionDefault == None

\* the all-zero bit pattern of Option<T> left by MaybeUninit::zeroed()
Zeroed == None

\* Slot::new
SlotNew(fill) ==
    [slot |-> [i \in 0..(SLOT_CAP - 1) |-> IF fill THEN OptionDefault ELSE Zeroed],
     len |-> SLOT_CAP,
     access |-> FALSE]

\* the test made by Slot::try_lock after it has won the access flag
TryLockRejects(b, is_get) ==
    (is_get /\ b.len = 0) \/ (~is_get /\ b.len = SLOT_CAP)

\* Slot::unlock
\* a faulty variant of Unlock: the flag is left as it is
Unlock_noop(b) == b

Unlock(b) == [b EXCEPT !.access = FALSE]

\* Slot::checkout: res is Some(val) for Ok(val), None for Err(())
Checkout(b) ==
    LET i == b.len - 1 IN
    IF b.slot[i] # None
    THEN [bucket |-> [b EXCEPT !.slot[i] = None, !.len = i], res |-> b.slot[i]]
    ELSE [bucket |-> b, res |-> None]

\* (*reset)(&mut val)
ApplyReset(reset, val) ==
    IF reset = NullPtr THEN val ELSE [val EXCEPT !.marker = reset]

\* Slot::release
Release(b, val, reset) ==
    LET i == b.len IN
    IF b.slot[i] = None
    THEN [b EXCEPT !.slot[i] = Some(ApplyReset(reset, val)), !.len = i]
    ELSE b

\* SyncPool::make_pool
make_pool(size) == [k \in 1..size |-> SlotNew(TRUE)]

\* SyncPool::with_size
with_size(size) ==
    LET pool_size == size \div SLOT_CAP IN
    make_pool(IF pool_size < 1 THEN 1 ELSE pool_size)

\* SyncPool::new / Default::default
new == make_pool(POOL_SIZE)

\* a faulty variant of ExpansionBit: every word reads as "enabled"
ExpansionBit_always(configure_word) == TRUE

\* PoolState::expansion_enabled applied to a loaded configure word
ExpansionBit(configure_word) ==
    (configure_word \div CONFIG_ALLOW_EXPANSION) % 2 = 1

\* curr ^ mask for mask = CONFIG_ALLOW_EXPANSION (bit 0)
XorMask(word) ==
    IF ExpansionBit(word) THEN word - CONFIG_ALLOW_EXPANSION ELSE word + CONFIG_ALLOW_EXPANSION

\* fetch_add(1) / fetch_sub(1) on an AtomicUsize (wrapping)
FetchAdd(n) == (n + 1) % UsizeMod

FetchSub(n) == (n + UsizeMod - 1) % UsizeMod

----------------------------------------------------------------------------
VARIABLES
    slots,            \* SyncPool.slots : Vec<Slot<T>>
    curr,             \* SyncPool.curr
    visitor_counter,  \* SyncPool.visitor_counter : <<count, barrier>>
    fault_count,      \* SyncPool.fault_count
    configure,        \* SyncPool.configure
    reset_handle,     \* SyncPool.reset_handle (NullPtr or a hook)
    th,               \* per thread: position in the running call, its locals, and
                      \* the number of buckets it has called try_lock on (probes)
    held,             \* per thread: the values the caller owns
    nextId,           \* identity of the next object built by T::default()
    calls,            \* number of calls started so far
    log               \* results observed by a sequential caller, in order

pool == <<slots, curr, visitor_counter, fault_count, configure, reset_handle>>

vars == <<slots, curr, visitor_counter, fault_count, configure, reset_handle,
          th, held, nextId, calls, log>>

\* what a caller can observe of the pool between calls
Snapshot ==
    [slots |-> slots, curr |-> curr, vc |-> visitor_counter[1],
     barrier |-> visitor_counter[2], fault |-> fault_count,
     configure |-> configure, hook |-> reset_handle]

NoSnap == [none |-> TRUE]

\* a thread that is not inside any call
Idle ==
    [pc |-> "idle", op |-> "none", cap |-> 0, origin |-> 0, pos |-> 0, next |-> 0,
     count |-> 0, val |-> None, hook |-> NullPtr, additional |-> 0, block |-> FALSE,
     safe |-> FALSE, word |-> 0, target |-> FALSE, stale |-> None, out |-> "none",
     arg |-> None, ret |-> None, pre |-> NoSnap, probes |-> 0]

\* the program counters at which get/put hold `slot: &mut Slot<T>`
RefPcs == {"cas", "len", "checkout", "unlock", "release"}

\* the Slot a thread's `slot` reference reads: the live bucket, or the copy
\* left in the freed buffer when Vec::push moved the buckets under it
Ref(t) ==
    IF th[t].stale = None THEN slots[th[t].pos + 1] ELSE th[t].stale[1]

\* writing b through the thread's `slot` reference
SlotsAfterWrite(t, b) ==
    IF th[t].stale = None THEN [slots EXCEPT ![th[t].pos + 1] = b] ELSE slots

StaleAfterWrite(t, b) ==
    IF th[t].stale = None THEN None ELSE Some(b)

Done(s, result) ==
    [Idle EXCEPT !.pc = "done", !.op = s.op, !.arg = s.arg, !.ret = Some(result),
                 !.pre = s.pre]

----------------------------------------------------------------------------
\* State after construction: SyncPool::new() or SyncPool::with_size(size).
InitPool(s) ==
    /\ slots = s
    /\ curr = 0
    /\ visitor_counter = <<1, FALSE>>
    /\ fault_count = 0
    /\ configure = 0
    /\ reset_handle = NullPtr
    /\ th = [t \in Threads |-> Idle]
    /\ held = [t \in Threads |-> {}]
    /\ nextId = 1
    /\ calls = 0
    /\ log = <<>>

Init == \E s \in {new} \cup {with_size(n) : n \in 0..MaxSizeArg} : InitPool(s)

----------------------------------------------------------------------------
\* VisitorGuard::register, first half: `while base.1.load(Acquire) { cpu_relax }`
\* (the back-off width `count` only sets the length of the pause)
RegisterLoad(t) ==
    /\ th' = [th EXCEPT ![t].pc = IF visitor_counter[2] THEN "reg_load" ELSE "reg_inc"]
    /\ UNCHANGED <<pool, held, nextId, calls, log>>

\* VisitorGuard::register, second half: `base.0.fetch_add(1, SeqCst)`
RegisterInc(t) ==
    /\ visitor_counter' = <<FetchAdd(visitor_counter[1]), visitor_counter[2]>>
    /\ th' = [th EXCEPT ![t].pc = "cap"]
    /\ UNCHANGED <<slots, curr, fault_count, configure, reset_handle, held, nextId, calls, log>>

\* <VisitorGuard as Drop>::drop
GuardDrop(vc) == <<FetchSub(vc[1]), vc[2]>>

\* `let cap = self.slots.len();`
ReadCap(t) ==
    /\ th' = [th EXCEPT ![t].cap = Len(slots), ![t].pc = "origin"]
    /\ UNCHANGED <<pool, held, nextId, calls, log>>

\* get: `let next = if pos == cap - 1 { 0 } else { pos + 1 };`
GetNext(pos, cap) == IF pos = cap - 1 THEN 0 ELSE pos + 1

\* put: `let next = if pos == 0 { cap - 1 } else { pos - 1 };`
PutNext(pos, cap) == IF pos = 0 THEN cap - 1 ELSE pos - 1

\* put: `let origin = if curr > 0 { curr - 1 } else { 0 };`
PutOrigin(c) == IF c > 0 THEN c - 1 ELSE 0

\* `let slot = &mut self.slots[pos]; let next = ...;` and the first line of
\* try_lock, `let mut count = if is_get { 4 } else { 6 };`
TakeSlot(t, is_get) ==
    LET s == th[t] IN
    /\ th' = [th EXCEPT ![t].stale = None,
                        ![t].next = IF is_get THEN GetNext(s.pos, s.cap) ELSE PutNext(s.pos, s.cap),
                        ![t].count = IF is_get THEN GET_SPIN ELSE PUT_SPIN,
                        ![t].probes = s.probes + 1,
                        ![t].pc = "cas"]
    /\ UNCHANGED <<pool, held, nextId, calls, log>>

\* a faulty variant of MoveOn: the loop does not stop at the origin
MoveOn_nostop(s) == [s EXCEPT !.pos = s.next, !.pc = "slot"]

\* the thread's locals after try_lock returned false: `pos = next; if pos ==
\* origin { break; } continue;`
MoveOn(s) ==
    [s EXCEPT !.pos = s.next, !.pc = IF s.next = s.origin THEN "drop" ELSE "slot"]

\* a faulty variant of TryLockCas: the flag is set without being tested
TryLockCas_blind(t) ==
    LET b == Ref(t) IN
    /\ slots' = SlotsAfterWrite(t, [b EXCEPT !.access = TRUE])
    /\ th' = [th EXCEPT ![t].stale = StaleAfterWrite(t, [b EXCEPT !.access = TRUE]),
                        ![t].pc = "len"]
    /\ UNCHANGED <<curr, visitor_counter, fault_count, configure, reset_handle,
                   held, nextId, calls, log>>

\* one iteration of the compare_exchange loop of Slot::try_lock
TryLockCas(t) ==
    LET s == th[t]
        b == Ref(t)
    IN
    /\ IF ~b.access
       THEN /\ slots' = SlotsAfterWrite(t, [b EXCEPT !.access = TRUE])
            /\ th' = [th EXCEPT ![t].stale = StaleAfterWrite(t, [b EXCEPT !.access = TRUE]),
                                ![t].pc = "len"]
       ELSE /\ slots' = slots
            /\ th' = [th EXCEPT ![t] = IF s.count - 1 = 0
                                       THEN MoveOn([s EXCEPT !.count = 0])
                                       ELSE [s EXCEPT !.count = s.count - 1]]
    /\ UNCHANGED <<curr, visitor_counter, fault_count, configure, reset_handle,
                   held, nextId, calls, log>>

\* the end of Slot::try_lock: the emptiness/fullness test, with the unlock
\* and `return false` of its failing branch
TryLockLen(t, is_get) ==
    LET s == th[t]
        b == Ref(t)
    IN
    /\ IF TryLockRejects(b, is_get)
       THEN /\ slots' = SlotsAfterWrite(t, Unlock(b))
            /\ th' = [th EXCEPT ![t] = MoveOn([s EXCEPT !.stale = StaleAfterWrite(t, Unlock(b))])]
       ELSE /\ slots' = slots
            /\ th' = [th EXCEPT ![t].pc = IF is_get THEN "checkout" ELSE "store"]
    /\ UNCHANGED <<curr, visitor_counter, fault_count, configure, reset_handle,
                   held, nextId, calls, log>>

\* `slot.unlock();` on the path where try_lock returned true
UnlockStep(t, nextpc) ==
    LET b == Ref(t) IN
    /\ slots' = SlotsAfterWrite(t, Unlock(b))
    /\ th' = [th EXCEPT ![t].stale = StaleAfterWrite(t, Unlock(b)), ![t].pc = nextpc]
    /\ UNCHANGED <<curr, visitor_counter, fault_count, configure, reset_handle,
                   held, nextId, calls, log>>

\* the value SyncPool::get gives back when the loop was left by `break`:
\* `Default::default()`
\* a faulty variant of GetFallback: one shared default object for every call
GetFallback_shared(n) == [out |-> "miss", val |-> [id |-> 0, marker |-> 0]]

GetFallback(n) == [out |-> "miss", val |-> DefaultT(n)]

\* SyncPool::get
GetStep(t) ==
    LET s == th[t] IN
    /\ s.op = "get"
    /\ s.pc \notin {"idle", "done"}
    /\ CASE s.pc = "reg_load" -> RegisterLoad(t)
         [] s.pc = "reg_inc" -> RegisterInc(t)
         [] s.pc = "cap" -> ReadCap(t)
         [] s.pc = "origin" ->
              \* let origin = self.curr.load(Acquire) % cap; let mut pos = origin;
              /\ th' = [th EXCEPT ![t].origin = curr % s.cap, ![t].pos = curr % s.cap,
                                  ![t].pc = "slot"]
              /\ UNCHANGED <<pool, held, nextId, calls, log>>
         [] s.pc = "slot" -> TakeSlot(t, TRUE)
         [] s.pc = "cas" -> TryLockCas(t)
         [] s.pc = "len" -> TryLockLen(t, TRUE)
         [] s.pc = "checkout" ->
              \* let checkout = slot.checkout();
              LET r == Checkout(Ref(t)) IN
              /\ slots' = SlotsAfterWrite(t, r.bucket)
              /\ th' = [th EXCEPT ![t].stale = StaleAfterWrite(t, r.bucket),
                                  ![t].val = r.res, ![t].pc = "unlock"]
              /\ UNCHANGED <<curr, visitor_counter, fault_count, configure, reset_handle,
                             held, nextId, calls, log>>
         [] s.pc = "unlock" ->
              \* slot.unlock(); if let Ok(val) = checkout { .. } break;
              UnlockStep(t, IF s.val # None THEN "store" ELSE "drop")
         [] s.pc = "store" ->
              \* self.curr.store(next, Release);
              /\ curr' = s.next
              /\ th' = [th EXCEPT ![t].pc = "guard"]
              /\ UNCHANGED <<slots, visitor_counter, fault_count, configure, reset_handle,
                             held, nextId, calls, log>>
         [] s.pc = "guard" ->
              \* return val;  (_guard goes out of scope)
              /\ visitor_counter' = GuardDrop(visitor_counter)
              /\ th' = [th EXCEPT ![t] = Done(s, [out |-> "hit", val |-> s.val[1]])]
              /\ UNCHANGED <<slots, curr, fault_count, configure, reset_handle,
                             held, nextId, calls, log>>
         [] s.pc = "drop" ->
              \* drop(_guard); Default::default()
              /\ visitor_counter' = GuardDrop(visitor_counter)
              /\ th' = [th EXCEPT ![t] = Done(s, GetFallback(nextId))]
              /\ nextId' = nextId + 1
              /\ UNCHANGED <<slots, curr, fault_count, configure, reset_handle,
                             held, calls, log>>

\* SyncPool::put
PutStep(t) ==
    LET s == th[t] IN
    /\ s.op = "put"
    /\ s.pc \notin {"idle", "done"}
    /\ CASE s.pc = "reg_load" -> RegisterLoad(t)
         [] s.pc = "reg_inc" -> RegisterInc(t)
         [] s.pc = "cap" -> ReadCap(t)
         [] s.pc = "origin" ->
              \* let curr = self.curr.load(Acquire) % cap; let origin = ..; let mut pos = origin;
              /\ th' = [th EXCEPT ![t].origin = PutOrigin(curr % s.cap),
                                  ![t].pos = PutOrigin(curr % s.cap),
                                  ![t].pc = "slot"]
              /\ UNCHANGED <<pool, held, nextId, calls, log>>
         [] s.pc = "slot" -> TakeSlot(t, FALSE)
         [] s.pc = "cas" -> TryLockCas(t)
         [] s.pc = "len" -> TryLockLen(t, FALSE)
         [] s.pc = "store" ->
              \* self.curr.store(pos, Release);
              /\ curr' = s.pos
              /\ th' = [th EXCEPT ![t].pc = "hook"]
              /\ UNCHANGED <<slots, visitor_counter, fault_count, configure, reset_handle,
                             held, nextId, calls, log>>
         [] s.pc = "hook" ->
              \* self.reset_handle.load(Acquire), the argument of release
              /\ th' = [th EXCEPT ![t].hook = reset_handle, ![t].pc = "release"]
              /\ UNCHANGED <<pool, held, nextId, calls, log>>
         [] s.pc = "release" ->
              \* slot.release(val, reset);
              LET b == Ref(t)
                  nb == Release(b, s.val[1], s.hook)
              IN
              /\ slots' = SlotsAfterWrite(t, nb)
              /\ th' = [th EXCEPT ![t].stale = StaleAfterWrite(t, nb),
                                  ![t].val = None,
                                  ![t].out = IF nb # b THEN "stored" ELSE "dropped",
                                  ![t].pc = "unlock"]
              /\ UNCHANGED <<curr, visitor_counter, fault_count, configure, reset_handle,
                             held, nextId, calls, log>>
         [] s.pc = "unlock" -> UnlockStep(t, "guard")
         [] s.pc = "guard" ->
              \* return;  (_guard goes out of scope)
              /\ visitor_counter' = GuardDrop(visitor_counter)
              /\ th' = [th EXCEPT ![t] = Done(s, [out |-> s.out])]
              /\ UNCHANGED <<slots, curr, fault_count, configure, reset_handle,
                             held, nextId, calls, log>>
         [] s.pc = "drop" ->
              \* the loop was left by `break`: val and _guard are dropped at the
              \* end of the function
              /\ visitor_counter' = GuardDrop(visitor_counter)
              /\ th' = [th EXCEPT ![t] = Done(s, [out |-> "dropped"])]
              /\ UNCHANGED <<slots, curr, fault_count, configure, reset_handle,
                             held, nextId, calls, log>>

----------------------------------------------------------------------------
\* `count += 1` in expand's drain loop.  Past DRAIN_RETRY the counter is
\* used only in the test `count > 8`, so it is kept within the two values
\* DRAIN_RETRY + 1 and DRAIN_RETRY + 2 while the loop keeps turning.
DrainCount(count) == IF count > DRAIN_RETRY + 1 THEN DRAIN_RETRY + 1 ELSE count + 1

\* `if count > 8 && !block { break false; }`
DrainGivesUp(count, block) == count > DRAIN_RETRY /\ ~block

\* a faulty variant of LowerBarrier: the flag is left raised
LowerBarrier_skip(vc) == vc

\* `self.visitor_counter.1.store(false, Release);`
LowerBarrier(vc) == <<vc[1], FALSE>>

\* the buckets seen through the references other threads hold, after a
\* Vec::push of thread t that moved the buffer (moved) or grew it in place
StaleAfterPush(t, moved) ==
    [u \in Threads |->
        IF /\ moved
           /\ u # t
           /\ th[u].op \in {"get", "put"}
           /\ th[u].pc \in RefPcs
           /\ th[u].stale = None
        THEN [th[u] EXCEPT !.stale = Some(slots[th[u].pos + 1])]
        ELSE th[u]]

\* PoolManager::expand
ExpandStep(t) ==
    LET s == th[t] IN
    /\ s.op = "expand"
    /\ s.pc \notin {"idle", "done"}
    /\ CASE s.pc = "e_enabled" ->
              \* if !self.expansion_enabled() { return false; }
              /\ th' = [th EXCEPT ![t] = IF ExpansionBit(configure)
                                         THEN [s EXCEPT !.pc = "e_len"]
                                         ELSE Done(s, [out |-> FALSE, site |-> "disabled"])]
              /\ UNCHANGED <<pool, held, nextId, calls, log>>
         [] s.pc = "e_len" ->
              \* if self.slots.len() > EXPANSION_CAP { return false; }
              /\ th' = [th EXCEPT ![t] = IF Len(slots) > EXPANSION_CAP
                                         THEN Done(s, [out |-> FALSE, site |-> "cap"])
                                         ELSE [s EXCEPT !.pc = "e_barrier"]]
              /\ UNCHANGED <<pool, held, nextId, calls, log>>
         [] s.pc = "e_barrier" ->
              \* visitor_counter.1.compare_exchange_weak(false, true, ..): the
              \* weak form may also fail when the flag is false
              \E spurious \in BOOLEAN :
                 LET won == ~visitor_counter[2] /\ ~spurious IN
                 /\ visitor_counter' = <<visitor_counter[1], visitor_counter[2] \/ won>>
                 /\ th' = [th EXCEPT ![t] = IF won
                                            THEN [s EXCEPT !.count = 0, !.pc = "e_drain"]
                                            ELSE Done(s, [out |-> FALSE, site |-> "barrier"])]
                 /\ UNCHANGED <<slots, curr, fault_count, configure, reset_handle,
                                held, nextId, calls, log>>
         [] s.pc = "e_drain" ->
              \* one iteration of the loop: compare_exchange(1, 0, ..)
              IF visitor_counter[1] = 1
              THEN /\ visitor_counter' = <<0, visitor_counter[2]>>
                   /\ th' = [th EXCEPT ![t].safe = TRUE, ![t].pos = 0,
                                       ![t].pc = IF s.additional > 0 THEN "e_push" ELSE "e_fault"]
                   /\ UNCHANGED <<slots, curr, fault_count, configure, reset_handle,
                                  held, nextId, calls, log>>
              ELSE /\ th' = [th EXCEPT ![t] =
                               IF DrainGivesUp(DrainCount(s.count), s.block)
                               THEN [s EXCEPT !.count = DrainCount(s.count), !.safe = FALSE,
                                              !.pc = "e_restore"]
                               ELSE [s EXCEPT !.count = DrainCount(s.count)]]
                   /\ UNCHANGED <<pool, held, nextId, calls, log>>
         [] s.pc = "e_push" ->
              \* self.slots.push(Slot::new(true)), once per element of 0..additional
              \E moved \in BOOLEAN :
                 /\ slots' = Append(slots, SlotNew(TRUE))
                 /\ th' = [StaleAfterPush(t, moved) EXCEPT
                              ![t].pos = s.pos + 1,
                              ![t].pc = IF s.pos + 1 < s.additional THEN "e_push" ELSE "e_fault"]
                 /\ UNCHANGED <<curr, visitor_counter, fault_count, configure, reset_handle,
                                held, nextId, calls, log>>
         [] s.pc = "e_fault" ->
              \* self.fault_count.store(0, Release);
              /\ fault_count' = 0
              /\ th' = [th EXCEPT ![t].pc = "e_restore"]
              /\ UNCHANGED <<slots, curr, visitor_counter, configure, reset_handle,
                             held, nextId, calls, log>>
         [] s.pc = "e_restore" ->
              \* self.visitor_counter.0.store(1, SeqCst);
              /\ visitor_counter' = <<1, visitor_counter[2]>>
              /\ th' = [th EXCEPT ![t].pc = "e_unbar"]
              /\ UNCHANGED <<slots, curr, fault_count, configure, reset_handle,
                             held, nextId, calls, log>>
         [] s.pc = "e_unbar" ->
              \* self.visitor_counter.1.store(false, Release); safe
              /\ visitor_counter' = LowerBarrier(visitor_counter)
              /\ th' = [th EXCEPT ![t] = Done(s, [out |-> s.safe, site |-> "end"])]
              /\ UNCHANGED <<slots, curr, fault_count, configure, reset_handle,
                             held, nextId, calls, log>>

\* PoolManager::allow_expansion with SyncPool::update_config
AllowStep(t) ==
    LET s == th[t] IN
    /\ s.op = "allow"
    /\ s.pc \notin {"idle", "done"}
    /\ CASE s.pc = "a_check" ->
              \* if !(self.expansion_enabled() ^ allow) { return; }
              /\ th' = [th EXCEPT ![t] = IF ExpansionBit(configure) = s.target
                                         THEN Done(s, [out |-> "same"])
                                         ELSE [s EXCEPT !.pc = "a_load"]]
              /\ UNCHANGED <<pool, held, nextId, calls, log>>
         [] s.pc = "a_load" ->
              \* let mut curr = self.configure.load(SeqCst);
              /\ th' = [th EXCEPT ![t].word = configure, ![t].pc = "a_cas"]
              /\ UNCHANGED <<pool, held, nextId, calls, log>>
         [] s.pc = "a_cas" ->
              \* while let Err(old) = configure.compare_exchange(curr, curr ^ mask, ..)
              IF configure = s.word
              THEN /\ configure' = XorMask(s.word)
                   /\ th' = [th EXCEPT ![t] = Done(s, [out |-> "flipped"])]
                   /\ UNCHANGED <<slots, curr, visitor_counter, fault_count, reset_handle,
                                  held, nextId, calls, log>>
              ELSE /\ th' = [th EXCEPT ![t] = IF ExpansionBit(configure) = s.target
                                              THEN Done(s, [out |-> "same"])
                                              ELSE [s EXCEPT !.word = configure]]
                   /\ UNCHANGED <<pool, held, nextId, calls, log>>

\* PoolManager::reset_handle
HookStep(t) ==
    LET s == th[t] IN
    /\ s.op = "hook"
    /\ s.pc = "h_swap"
    /\ reset_handle' = s.arg[1]
    /\ th' = [th EXCEPT ![t] = Done(s, [out |-> "set"])]
    /\ UNCHANGED <<slots, curr, visitor_counter, fault_count, configure,
                   held, nextId, calls, log>>

----------------------------------------------------------------------------
\* The callers.  A call starts from an idle thread; snap is what the caller
\* records of the pool at that moment.
Start(t, op, pc, arg, snap) ==
    [Idle EXCEPT !.pc = pc, !.op = op, !.arg = arg, !.pre = snap]

CallGet(t, snap) ==
    /\ th[t].pc = "idle"
    /\ th' = [th EXCEPT ![t] = Start(t, "get", "reg_load", None, snap)]
    /\ calls' = calls + 1
    /\ UNCHANGED <<pool, held, nextId, log>>

\* put(v) of a value the caller got from get
CallPutHeld(t, snap) ==
    /\ th[t].pc = "idle"
    /\ \E v \in held[t] :
          /\ th' = [th EXCEPT ![t] = [Start(t, "put", "reg_load", Some(v), snap)
                                        EXCEPT !.val = Some(v)]]
          /\ held' = [held EXCEPT ![t] = held[t] \ {v}]
    /\ calls' = calls + 1
    /\ UNCHANGED <<pool, nextId, log>>

\* put(v) of an object the caller built itself
CallPutNew(t, snap) ==
    /\ th[t].pc = "idle"
    /\ th' = [th EXCEPT ![t] = [Start(t, "put", "reg_load", Some(DefaultT(nextId)), snap)
                                  EXCEPT !.val = Some(DefaultT(nextId))]]
    /\ nextId' = nextId + 1
    /\ calls' = calls + 1
    /\ UNCHANGED <<pool, held, log>>

\* a call of expand whose `block` argument is drawn from Blocks
CallExpandWith(t, snap, Blocks) ==
    /\ th[t].pc = "idle"
    /\ \E additional \in 1..MaxAdditional, block \in Blocks :
          th' = [th EXCEPT ![t] = [Start(t, "expand", "e_enabled", Some(<<additional, block>>), snap)
                                     EXCEPT !.additional = additional, !.block = block]]
    /\ calls' = calls + 1
    /\ UNCHANGED <<pool, held, nextId, log>>

CallExpand(t, snap) == CallExpandWith(t, snap, BOOLEAN)

CallAllow(t, snap) ==
    /\ th[t].pc = "idle"
    /\ \E allow \in BOOLEAN :
          th' = [th EXCEPT ![t] = [Start(t, "allow", "a_check", Some(allow), snap)
                                     EXCEPT !.target = allow]]
    /\ calls' = calls + 1
    /\ UNCHANGED <<pool, held, nextId, log>>

CallHook(t, snap) ==
    /\ th[t].pc = "idle"
    /\ \E h \in Hooks :
          th' = [th EXCEPT ![t] = Start(t, "hook", "h_swap", Some(h), snap)]
    /\ calls' = calls + 1
    /\ UNCHANGED <<pool, held, nextId, log>>

\* what a sequential caller writes down when a call returns
Entry(t) ==
    [op |-> th[t].op, arg |-> th[t].arg, ret |-> th[t].ret[1],
     pre |-> th[t].pre, post |-> Snapshot]

\* the call returns to its caller, who takes the value a get gave it
Return(t, record) ==
    /\ th[t].pc = "done"
    /\ held' = [held EXCEPT ![t] = IF th[t].op = "get"
                                   THEN held[t] \cup {th[t].ret[1].val}
                                   ELSE held[t]]
    /\ th' = [th EXCEPT ![t] = Idle]
    /\ log' = IF record THEN Append(log, Entry(t)) ELSE log
    /\ UNCHANGED <<pool, nextId, calls>>

----------------------------------------------------------------------------
\* Spec: any number of threads calling every operation concurrently.
Next ==
    \E t \in Threads :
       \/ calls < MaxCalls /\ CallGet(t, NoSnap)
       \/ calls < MaxCalls /\ CallPutHeld(t, NoSnap)
       \/ calls < MaxCalls /\ CallPutNew(t, NoSnap)
       \/ calls < MaxCalls /\ CallExpand(t, NoSnap)
       \/ calls < MaxCalls /\ CallAllow(t, NoSnap)
       \/ calls < MaxCalls /\ CallHook(t, NoSnap)
       \/ Return(t, FALSE)
       \/ GetStep(t)
       \/ PutStep(t)
       \/ ExpandStep(t)
       \/ AllowStep(t)
       \/ HookStep(t)

Spec == Init /\ [][Next]_vars

\* SpecUsers: threads calling get and put concurrently, nothing else.
NextUsers ==
    \E t \in Threads :
       \/ calls < MaxUserCalls /\ CallGet(t, NoSnap)
       \/ calls < MaxUserCalls /\ CallPutHeld(t, NoSnap)
       \/ calls < MaxUserCalls /\ CallPutNew(t, NoSnap)
       \/ Return(t, FALSE)
       \/ GetStep(t)
       \/ PutStep(t)

SpecUsers == Init /\ [][NextUsers]_vars

\* SpecSeq: one caller making one call after the other, and writing down
\* what each call returned and the pool before and after it.
NextSeq ==
    \E t \in {1} :
       \/ calls < MaxSeqCalls /\ CallGet(t, Snapshot)
       \/ calls < MaxSeqCalls /\ CallPutHeld(t, Snapshot)
       \/ calls < MaxSeqCalls /\ CallPutNew(t, Snapshot)
       \/ calls < MaxSeqCalls /\ CallExpand(t, Snapshot)
       \/ calls < MaxSeqCalls /\ CallAllow(t, Snapshot)
       \/ calls < MaxSeqCalls /\ CallHook(t, Snapshot)
       \/ Return(t, TRUE)
       \/ GetStep(t)
       \/ PutStep(t)
       \/ ExpandStep(t)
       \/ AllowStep(t)
       \/ HookStep(t)

SpecSeq == Init /\ [][NextSeq]_vars

\* SpecDrain: the drain-and-refill scenario.  One caller calls get once more
\* than the pool has slots, then put of as many distinct new values.
Capacity == Len(slots) * SLOT_CAP

NextDrain ==
    \E t \in {1} :
       \/ Len(log) < Capacity + 1 /\ CallGet(t, Snapshot)
       \/ Len(log) >= Capacity + 1 /\ Len(log) < 2 * (Capacity + 1) /\ CallPutNew(t, Snapshot)
       \/ Return(t, TRUE)
       \/ GetStep(t)
       \/ PutStep(t)

SpecDrain == Init /\ [][NextDrain]_vars

TypeOK ==
    /\ curr \in Nat
    /\ visitor_counter[1] \in 0..(UsizeMod - 1)
    /\ visitor_counter[2] \in BOOLEAN
    /\ \A k \in 1..Len(slots) : slots[k].len \in 0..SLOT_CAP

----------------------------------------------------------------------------
\* Vocabulary of the properties.

RECURSIVE SumLen(_)
\* the sum of len over a sequence of buckets
SumLen(bs) == IF bs = <<>> THEN 0 ELSE bs[1].len + SumLen(Tail(bs))

\* the indices of the occupied slots of a bucket
Occupied(b) == {i \in 0..(SLOT_CAP - 1) : b.slot[i] # None}

\* no bucket holds a value
AllEmpty(bs) == \A k \in 1..Len(bs) : Occupied(bs[k]) = {}

\* every bucket has len == SLOT_CAP
AllFull(bs) == \A k \in 1..Len(bs) : bs[k].len = SLOT_CAP

\* some bucket has a slot that holds no value
HasFreeSlot(bs) == \E k \in 1..Len(bs) : Occupied(bs[k]) # 0..(SLOT_CAP - 1)

\* a get or put of thread t is between its register and its deregister step
InFlight(t) ==
    /\ th[t].op \in {"get", "put"}
    /\ th[t].pc \notin {"idle", "done", "reg_load", "reg_inc"}

\* thread t is inside expand, has drained the counter 1 -> 0 and has not yet
\* stored 1 back
ExpandHolds(t) ==
    /\ th[t].op = "expand"
    /\ th[t].pc \in {"e_push", "e_fault", "e_restore"}
    /\ th[t].safe

\* the places that own the object with identity id: bucket slots, the
\* locals of running calls, values being returned, values callers hold
SlotOwners(id) ==
    {p \in (1..Len(slots)) \X (0..(SLOT_CAP - 1)) :
        slots[p[1]].slot[p[2]] # None /\ slots[p[1]].slot[p[2]][1].id = id}

LocalOwners(id) ==
    {t \in Threads : th[t].val # None /\ th[t].val[1].id = id}

ReturnOwners(id) ==
    {t \in Threads : th[t].pc = "done" /\ th[t].op = "get" /\ th[t].ret[1].val.id = id}

HeldOwners(id) ==
    {p \in Threads \X UNION {held[u] : u \in Threads} : p[2] \in held[p[1]] /\ p[2].id = id}

Owners(id) ==
    Cardinality(SlotOwners(id)) + Cardinality(LocalOwners(id))
        + Cardinality(ReturnOwners(id)) + Cardinality(HeldOwners(id))

----------------------------------------------------------------------------
\* C1 -- Per-bucket conservation: whenever a bucket's lock is released, its
\* slots [0, len) are occupied and its slots [len, SLOT_CAP) are empty; and
\* when no get or put is in flight the number of values the pool holds is
\* the sum of len over the buckets.
C1_Conservation ==
    /\ \A k \in 1..Len(slots) :
          ~slots[k].access => Occupied(slots[k]) = 0..(slots[k].len - 1)
    /\ (\A t \in Threads : th[t].op \notin {"get", "put"})
          => SumLen(slots) = Cardinality({<<k, i>> \in (1..Len(slots)) \X (0..(SLOT_CAP - 1)) :
                                             slots[k].slot[i] # None})

\* C3 -- No duplication: at no time is one object owned by two places (two
\* callers, a caller and a slot, two slots, a value being returned and a
\* value already returned).
C3_NoDuplication ==
    \A id \in 0..nextId : Owners(id) <= 1

\* C3 witness: one thread owns a value it got from get while another get is
\* returning a value.
C3_Witness ==
    \E t \in Threads, u \in Threads :
       /\ t # u
       /\ held[t] # {}
       /\ th[u].pc = "done" /\ th[u].op = "get"

\* C4 -- Drain: each of the first Capacity get calls on a new pool returns a
\* pooled value, fault_count stays 0 and the sum of len falls by one per
\* call, so that every len is 0 after the last of them.
C4_Drain ==
    \A i \in 1..Len(log) :
       i <= Capacity =>
          /\ log[i].op = "get"
          /\ log[i].ret.out = "hit"
          /\ log[i].post.fault = 0
          /\ SumLen(log[i].post.slots) = Capacity - i

\* C5 -- Refill: after the drain, each of the next Capacity put calls stores
\* its value (the sum of len grows by one per put), every bucket is full
\* after the last of them, and only the put after that drops its value.
C5_Refill ==
    \A i \in 1..Len(log) :
       /\ (Capacity + 1 < i /\ i <= 2 * Capacity + 1) =>
             /\ log[i].op = "put"
             /\ log[i].ret.out = "stored"
             /\ SumLen(log[i].post.slots) = SumLen(log[i].pre.slots) + 1
             /\ (i = 2 * Capacity + 1 => AllFull(log[i].post.slots))
       /\ i = 2 * Capacity + 2 => log[i].ret.out = "dropped"

\* C6 -- Acquisition miss: a get on a pool whose buckets hold no value
\* returns a new default value, changes no bucket and adds exactly 1 to
\* fault_count.
C6_MissCounted ==
    \A i \in 1..Len(log) :
       (log[i].op = "get" /\ AllEmpty(log[i].pre.slots)) =>
          /\ log[i].ret.out = "miss"
          /\ log[i].ret.val.marker = 0
          /\ log[i].post.slots = log[i].pre.slots
          /\ log[i].post.fault = log[i].pre.fault + 1

\* C7 -- Return miss: a put on a pool whose every bucket has len == SLOT_CAP
\* drops its value, leaves slots and len of every bucket as they were,
\* leaves every bucket lock released and visitor_count at its value from
\* before the call.
C7_ReturnMiss ==
    \A i \in 1..Len(log) :
       (log[i].op = "put" /\ AllFull(log[i].pre.slots)) =>
          /\ log[i].ret.out = "dropped"
          /\ Len(log[i].post.slots) = Len(log[i].pre.slots)
          /\ \A k \in 1..Len(log[i].pre.slots) :
                /\ log[i].post.slots[k].slot = log[i].pre.slots[k].slot
                /\ log[i].post.slots[k].len = log[i].pre.slots[k].len
                /\ ~log[i].post.slots[k].access
          /\ log[i].post.vc = log[i].pre.vc

\* C7 witness: a put on a pool of full buckets has returned.
C7_Witness ==
    \E i \in 1..Len(log) :
       /\ log[i].op = "put"
       /\ AllFull(log[i].pre.slots)
       /\ log[i].ret.out = "dropped"

\* C8 -- Reset hook: with a hook installed, a put(v) made while some bucket
\* has a free slot stores v with the hook's mark, and the get calls that
\* follow it, up to the first miss, return the marked v exactly once.
C8_ResetHook ==
    \A i \in 1..Len(log) :
       (log[i].op = "put" /\ log[i].pre.hook # NullPtr /\ HasFreeSlot(log[i].pre.slots)) =>
          LET v == ApplyReset(log[i].pre.hook, log[i].arg[1]) IN
          /\ log[i].ret.out = "stored"
          /\ \E k \in 1..Len(log[i].post.slots) :
                \E j \in 0..(SLOT_CAP - 1) : log[i].post.slots[k].slot[j] = Some(v)
          /\ \A m \in (i + 1)..Len(log) :
                (/\ \A j \in (i + 1)..m : log[j].op = "get"
                 /\ \A j \in (i + 1)..(m - 1) : log[j].ret.out = "hit"
                 /\ log[m].ret.out = "miss")
                => Cardinality({j \in (i + 1)..m : log[j].ret.val = v}) = 1

\* C9 -- Exclusive expansion: no get or put is between its register and its
\* deregister step while visitor_count == 0, and none is while an expand
\* call is appending buckets.
C9_Exclusive ==
    /\ visitor_counter[1] = 0 => \A t \in Threads : ~InFlight(t)
    /\ (\E e \in Threads : th[e].op = "expand" /\ th[e].pc = "e_push")
          => \A t \in Threads : ~InFlight(t)

\* C10 -- visitor_count == 0 only while an expand call holds the barrier
\* (flag set, counter drained by that call and not yet restored), and the
\* counter never wraps below 0.
C10_ZeroOnlyInExpand ==
    /\ visitor_counter[1] = 0 =>
          (visitor_counter[2] /\ \E e \in Threads : ExpandHolds(e))
    /\ visitor_counter[1] <= NThreads + 1

----------------------------------------------------------------------------
\* Traffic: the worker threads call get and put while one thread, the
\* manager, calls allow_expansion and expand.
Manager == CHOOSE t \in Threads : \A u \in Threads : t <= u

Workers == Threads \ {Manager}

MaxTrafficCalls == 3

MaxLiveCalls == 5

Traffic(bound, Blocks) ==
    \/ \E t \in Workers : calls < bound /\ CallGet(t, NoSnap)
    \/ \E t \in Workers : calls < bound /\ CallPutNew(t, NoSnap)
    \/ calls < bound /\ CallAllow(Manager, Snapshot)
    \/ calls < bound /\ CallExpandWith(Manager, Snapshot, Blocks)
    \/ \E t \in Threads : Return(t, FALSE)
    \/ \E t \in Threads : GetStep(t)
    \/ \E t \in Threads : PutStep(t)
    \/ \E t \in Threads : ExpandStep(t)
    \/ \E t \in Threads : AllowStep(t)

NextTraffic == Traffic(MaxTrafficCalls, BOOLEAN)

SpecTraffic == Init /\ [][NextTraffic]_vars

\* SpecTry: traffic in which the manager only ever calls expand(_, false)
NextTry == Traffic(MaxTrafficCalls, {FALSE})

\* the pool of SyncPool::with_size(SLOT_CAP): a single bucket
InitOne == InitPool(with_size(SLOT_CAP))

SpecTry == InitOne /\ [][NextTry]_vars

\* SpecLive: the same traffic under a scheduler that lets every thread that
\* can take a step take one eventually.
NextLive == Traffic(MaxLiveCalls, BOOLEAN)

ThreadStep(t) ==
    GetStep(t) \/ PutStep(t) \/ ExpandStep(t) \/ AllowStep(t) \/ Return(t, FALSE)

Fairness == \A t \in Threads : WF_vars(ThreadStep(t))

SpecLive == Init /\ [][NextLive]_vars /\ Fairness

----------------------------------------------------------------------------
\* C11 -- Barrier liveness: an expand call with block = true that has
\* raised the barrier eventually returns, whatever expand calls ran before
\* it, once the registered get/put calls have deregistered.
C11_BlockingExpandTerminates ==
    \A e \in Threads :
       (th[e].op = "expand" /\ th[e].block /\ th[e].pc = "e_drain")
          ~> (th[e].op = "expand" /\ th[e].pc = "done")

\* C12 -- Bounded progress of users: under fair scheduling, and whatever
\* expand calls run concurrently, every get and every put call that starts
\* eventually returns; none waits forever at the barrier or on a bucket lock.
C12_UserReturns ==
    \A t \in Threads :
       (th[t].op \in {"get", "put"} /\ th[t].pc = "reg_load")
          ~> (th[t].op \in {"get", "put"} /\ th[t].pc = "done")

\* a non-blocking expand call of thread t has returned false
ExpandFailed(t) ==
    /\ th[t].op = "expand"
    /\ th[t].pc = "done"
    /\ ~th[t].arg[1][2]
    /\ ~th[t].ret[1].out

\* C13 -- Non-blocking expand failure: whenever expand(additional, false)
\* returns false while get/put traffic is running, buckets.len() is what it
\* was before the call and the barrier flag is cleared when the call returns.
C13_FailedExpandLeavesPool ==
    ExpandFailed(Manager) =>
       /\ Len(slots) = Len(th[Manager].pre.slots)
       /\ ~visitor_counter[2]

\* the drain of a non-blocking expand timed out on a registered user
C13_Witness ==
    /\ ExpandFailed(Manager)
    /\ th[Manager].ret[1].site = "end"
    /\ \E w \in Workers : InFlight(w)

\* a logged call of expand that was made with bit 0 of configure clear
DisabledExpand(e) ==
    /\ e.op = "expand"
    /\ e.pre.configure % 2 = 0

\* C14 -- Expansion disabled: while bit 0 of configure is clear (fresh pool,
\* or after allow_expansion(false)), expand returns false for every
\* additional and block, and leaves the buckets, visitor_count, the barrier
\* flag and fault_count as they were.
C14_DisabledExpandIsNoop ==
    \A i \in 1..Len(log) :
       DisabledExpand(log[i]) =>
          /\ ~log[i].ret.out
          /\ log[i].post.slots = log[i].pre.slots
          /\ log[i].post.vc = log[i].pre.vc
          /\ log[i].post.barrier = log[i].pre.barrier
          /\ log[i].post.fault = log[i].pre.fault

\* expand(_, true) returned after allow_expansion(false) had cleared the bit
C14_Witness ==
    \E i, j \in 1..Len(log) :
       /\ i < j
       /\ log[i].op = "allow"
       /\ log[i].arg = Some(FALSE)
       /\ log[i].pre.configure % 2 = 1
       /\ DisabledExpand(log[j])
       /\ log[j].arg[1][2]

----------------------------------------------------------------------------
\* SpecOnce: get/put traffic of the workers around a single call of
\* expand(k, true) by the manager, who may call allow_expansion before it.
NoExpandYet == \A i \in 1..Len(log) : log[i].op # "expand"

NextOnce ==
    \/ \E t \in Workers : calls < MaxTrafficCalls /\ CallGet(t, NoSnap)
    \/ \E t \in Workers : calls < MaxTrafficCalls /\ CallPutNew(t, NoSnap)
    \/ calls < MaxTrafficCalls /\ CallAllow(Manager, Snapshot)
    \/ calls < MaxTrafficCalls /\ NoExpandYet /\ CallExpandWith(Manager, Snapshot, {TRUE})
    \/ \E t \in Workers : Return(t, FALSE)
    \/ Return(Manager, TRUE)
    \/ \E t \in Threads : GetStep(t)
    \/ \E t \in Threads : PutStep(t)
    \/ ExpandStep(Manager)
    \/ AllowStep(Manager)

SpecOnce == Init /\ [][NextOnce]_vars

\* C15 -- Expand during traffic: with expansion enabled and buckets.len() <=
\* EXPANSION_CAP, a single expand(k, true) running concurrently with get/put
\* returns true; on return buckets.len() has grown by exactly k, the k new
\* buckets are pre-filled (len == SLOT_CAP), fault_count == 0, visitor_count
\* is 1 + the number of registered users, the barrier is cleared, and the
\* pre-existing buckets are as they were.
C15_BlockingExpandGrows ==
    LET s == th[Manager]
        before == Len(s.pre.slots)
    IN  ( /\ s.op = "expand"
          /\ s.pc = "done"
          /\ s.pre.configure % 2 = 1
          /\ before <= EXPANSION_CAP )
        => /\ s.ret[1].out
           /\ Len(slots) = before + s.arg[1][1]
           /\ \A k \in (before + 1)..Len(slots) : slots[k].len = SLOT_CAP
           /\ SubSeq(slots, 1, before) = s.pre.slots
           /\ fault_count = 0
           /\ visitor_counter = <<1 + Cardinality({w \in Workers : InFlight(w)}), FALSE>>

----------------------------------------------------------------------------
\* SpecManage: every thread calls allow_expansion and expand; each call is
\* written to the log when it returns.
MaxManageCalls == 3

NextManage ==
    \E t \in Threads :
       \/ calls < MaxManageCalls /\ CallAllow(t, Snapshot)
       \/ calls < MaxManageCalls /\ CallExpand(t, Snapshot)
       \/ Return(t, TRUE)
       \/ AllowStep(t)
       \/ ExpandStep(t)

SpecManage == Init /\ [][NextManage]_vars

AllIdle == \A t \in Threads : th[t].pc = "idle"

\* every call made so far was allow_expansion(flag)
OnlyAllow(flag) ==
    /\ log # <<>>
    /\ \A i \in 1..Len(log) : log[i].op = "allow" /\ log[i].arg = Some(flag)

\* C16 -- after any set of sequential or concurrent allow_expansion calls
\* that all pass the same flag has completed, expansion_enabled() == flag.
C16_AllowSettles ==
    \A flag \in BOOLEAN :
       (AllIdle /\ OnlyAllow(flag)) => (configure % 2 = 1) = flag

\* every expand call, returned or running, uses the increment k
OnlyIncrement(k) ==
    /\ \A i \in 1..Len(log) : log[i].op = "expand" => log[i].arg[1][1] = k
    /\ \A t \in Threads : th[t].op = "expand" => th[t].additional = k

\* C17 -- Bounded growth: under any sequence or interleaving of expand calls
\* that all use the same increment k, 1 <= buckets.len() <= EXPANSION_CAP + k,
\* and no expand call starts appending while buckets.len() > EXPANSION_CAP.
C17_BoundedGrowth ==
    /\ \A k \in 1..MaxAdditional :
          OnlyIncrement(k) => (1 <= Len(slots) /\ Len(slots) <= EXPANSION_CAP + k)
    /\ \A t \in Threads :
          (th[t].op = "expand" /\ th[t].pc = "e_push" /\ th[t].pos = 0)
             => Len(slots) <= EXPANSION_CAP

----------------------------------------------------------------------------
\* thread t's checkout has just found slot len - 1 empty (it returned Err)
CheckoutFoundEmpty(t) ==
    th[t].op = "get" /\ th[t].pc = "unlock" /\ th[t].val = None

\* thread t's release has just found slot len occupied and dropped its value
ReleaseFoundOccupied(t) ==
    th[t].op = "put" /\ th[t].pc = "unlock" /\ th[t].out = "dropped"

\* C18 -- the invariant-violation paths are never taken: in any sequence of
\* get, put and expand calls on a pool built by new()/with_size(), release
\* never finds slot `len` occupied and checkout never finds slot `len - 1`
\* empty.
C18_NoViolationPath ==
    \A t \in Threads : ~CheckoutFoundEmpty(t) /\ ~ReleaseFoundOccupied(t)

----------------------------------------------------------------------------
\* thread t has won the access flag of bucket k (0-based) and has not yet
\* stored false into it
HoldsLock(t, k) ==
    /\ th[t].pos = k
    /\ \/ th[t].op = "get" /\ th[t].pc \in {"len", "checkout", "unlock"}
       \/ th[t].op = "put" /\ th[t].pc \in {"len", "store", "hook", "release", "unlock"}

Buckets == 0..(Len(slots) - 1)

\* at most one holder per bucket, and the flag is set exactly while some call
\* holds it: a call that has returned holds nothing
LockedByOne ==
    \A k \in Buckets :
       /\ Cardinality({t \in Threads : HoldsLock(t, k)}) <= 1
       /\ slots[k + 1].access <=> (\E t \in Threads : HoldsLock(t, k))

\* a step that changes the slots or len of bucket k is a step of its holder
ChangedByHolder ==
    \A k \in Buckets :
       (slots'[k + 1].slot # slots[k + 1].slot \/ slots'[k + 1].len # slots[k + 1].len)
          => \E t \in Threads : HoldsLock(t, k) /\ th'[t] # th[t]

\* C19 -- Bucket lock mutual exclusion: under every interleaving of get and
\* put calls at most one operation holds a given bucket's lock at any
\* instant, every change to that bucket's slots or len is made by the holder,
\* and each operation has released every lock it acquired before it returns
\* (also when try_lock rejects an empty bucket for get or a full one for put).
C19_LockExclusive == [](LockedByOne) /\ [][ChangedByHolder]_vars

\* one call holds a bucket while another spins on the same bucket's flag
C19_Witness ==
    \E t, u \in Threads :
       /\ t # u
       /\ HoldsLock(t, th[t].pos)
       /\ th[u].op \in {"get", "put"}
       /\ th[u].pc = "cas"
       /\ th[u].pos = th[t].pos
       /\ th[u].count < GET_SPIN

----------------------------------------------------------------------------
\* thread t is inside the probing loop of get or put, or has just left it
Probing(t) ==
    /\ th[t].op \in {"get", "put"}
    /\ th[t].pc \notin {"idle", "done", "reg_load", "reg_inc", "cap", "origin"}

\* the bucket the loop of thread t starts at, for the cursor value c
StartOf(t, c) ==
    IF th[t].op = "get" THEN c % th[t].cap ELSE PutOrigin(c % th[t].cap)

====
